---- MODULE Spec2Model ----
(***************************************************************************)
(* A model of the AI Task App (src/src/App.tsx): the ingestion pipeline    *)
(* (extractTokens, chrono date resolution, inferPriority, parseTask,       *)
(* addTaskFromInput) and the task organizer (filtered, visible, buckets,   *)
(* moveToBucket and the other per-task mutations).                         *)
(* It also covers the JSON export and import (importJSON) and the text     *)
(* generation boundary (callLLM, summarizeDay, breakDownTask).             *)
(*                                                                         *)
(* Text is a sequence of one-character strings.  Time is an integer count  *)
(* of clock ticks since the epoch; the code's tick is the millisecond, the *)
(* model's is the hour, so that a local day has DayTicks ticks, the last   *)
(* instant of a day (23:59:59.999) is its tick DayTicks - 1, and "one      *)
(* millisecond later" is the next tick.                                    *)
(***************************************************************************)
EXTENDS Integers, Sequences, FiniteSets, TLC

VARIABLES
    tasks,          \* useState<Task[]>: the task collection, newest first
    input,          \* the quick-add text box
    notes,          \* the quick-add notes box
    filterText,     \* the search box
    filterTag,      \* the selected tag filter, or Absent (null)
    filterProject,  \* the selected project filter, or Absent (null)
    showDone,       \* the "show completed" switch
    now,            \* the wall clock, Date.now()
    aiKey,          \* the API key of the settings box, "" when there is none
    aiWorking,      \* the "thinking" flag of the assistant panel
    aiOutput,       \* the text the assistant panel shows
    pending,        \* the callLLM calls in flight, oldest first
    newest,         \* history: the text the most recently issued callLLM
                    \* call resolved to, Outstanding while it is in flight
    editing,        \* useState<Task | null>: the task of the edit dialog
    last            \* history: the last handler that ran, with its arguments

aiVars == <<aiKey, aiWorking, aiOutput, pending, newest>>
vars == <<tasks, input, notes, filterText, filterTag, filterProject, showDone, now,
          aiKey, aiWorking, aiOutput, pending, newest, editing, last>>

-----------------------------------------------------------------------------
(* Bounds of the model.                                                    *)

\* Input texts are concatenations of at most MaxTokens tokens of Tokens.
MaxTokens == 3
\* The task collection holds at most MaxTasks tasks in the application runs.
MaxTasks == 2
\* The collections the list and board views are computed from hold at most
\* MaxViewTasks tasks.
MaxViewTasks == 2
\* The clock runs over the local days 1 .. MaxDay.
MaxDay == 2

\* calls of callLLM in flight at once
MaxCalls == 2

-----------------------------------------------------------------------------
(* Values.                                                                 *)

\* undefined / null for a string-valued field (notes, project, the filters).
Absent == <<"<absent>">>
\* undefined for the due field (due?: number).
NoDue == -1
\* undefined for the explicit priority of extractTokens.
NoPriority == "none"

Priorities == {"low", "medium", "high"}
BucketKeys == {"today", "week", "later", "done"}

\* JavaScript truthiness of a number-or-undefined: undefined and 0 are falsy.
TruthyNum(n) == n # NoDue /\ n # 0
\* JavaScript truthiness of a string-or-undefined/null: they and "" are falsy.
TruthyStr(s) == s # Absent /\ s # <<>>

-----------------------------------------------------------------------------
(* Characters and strings.                                                 *)

UpperChars == <<"A","B","C","D","E","F","G","H","I","J","K","L","M",
                "N","O","P","Q","R","S","T","U","V","W","X","Y","Z">>
LowerChars == <<"a","b","c","d","e","f","g","h","i","j","k","l","m",
                "n","o","p","q","r","s","t","u","v","w","x","y","z">>
DigitChars == {"0","1","2","3","4","5","6","7","8","9"}

UpperSet == {UpperChars[i] : i \in 1..26}
LowerSet == {LowerChars[i] : i \in 1..26}
\* String.prototype.toLowerCase, one character at a time
LowerOf == [c \in UpperSet |-> LowerChars[CHOOSE i \in 1..26 : UpperChars[i] = c]]

\* \p{L}: a letter; \p{N}: a digit
LetterSet == UpperSet \cup LowerSet
\* the character class [\p{L}\p{N}_:-] of the tag pattern
TagCharSet == LetterSet \cup DigitChars \cup {"_", ":", "-"}
\* \w, for the \b of the keyword patterns
WordCharSet == LetterSet \cup DigitChars \cup {"_"}

IsTagChar(c) == c \in TagCharSet
IsWordChar(c) == c \in WordCharSet
\* \s
IsSpace(c) == c = " "

ToLowerChar(c) == IF c \in UpperSet THEN LowerOf[c] ELSE c
\* String.prototype.toLowerCase
ToLower(s) == [i \in 1..Len(s) |-> ToLowerChar(s[i])]

\* s.slice(from - 1): the suffix of s starting at its 1-based position from
Drop(s, from) == SubSeq(s, from, Len(s))
\* whether w occurs in s at 1-based position i
OccursAt(s, i, w) ==
    /\ i >= 1
    /\ i + Len(w) - 1 <= Len(s)
    /\ \A k \in 1..Len(w) : s[i + k - 1] = w[k]
\* String.prototype.startsWith
StartsWith(s, w) == OccursAt(s, 1, w)
\* String.prototype.includes
Includes(s, w) == \E i \in 1..(Len(s) + 1) : OccursAt(s, i, w)

\* \bw\b at position i, for a word w that starts and ends with a word character
WordAt(s, i, w) ==
    /\ OccursAt(s, i, w)
    /\ (i = 1 \/ ~IsWordChar(s[i - 1]))
    /\ (i + Len(w) = Len(s) + 1 \/ ~IsWordChar(s[i + Len(w)]))
\* /\b(w1|w2|...)\b/.test(s)
HasWord(s, words) == \E w \in words : \E i \in 1..Len(s) : WordAt(s, i, w)
\* /[!](w1|w2|...)/.test(s)
HasBang(s, words) == \E w \in words : Includes(s, <<"!">> \o w)

RECURSIVE TrimStart(_)
TrimStart(s) == IF s # <<>> /\ IsSpace(s[1]) THEN TrimStart(Tail(s)) ELSE s
RECURSIVE TrimEnd(_)
TrimEnd(s) ==
    IF s # <<>> /\ IsSpace(s[Len(s)]) THEN TrimEnd(SubSeq(s, 1, Len(s) - 1)) ELSE s
\* String.prototype.trim
Trim(s) == TrimEnd(TrimStart(s))

\* the length of the run of whitespace that starts at position i
RECURSIVE SpaceRun(_, _)
SpaceRun(s, i) == IF i <= Len(s) /\ IsSpace(s[i]) THEN 1 + SpaceRun(s, i + 1) ELSE 0
\* .replace(/\s{2,}/g, " "): every run of two or more whitespace characters
\* becomes one space; a single whitespace character stays as it is
RECURSIVE CollapseFrom(_, _)
CollapseFrom(s, i) ==
    IF i > Len(s) THEN <<>>
    ELSE LET run == SpaceRun(s, i) IN
         IF run >= 2 THEN <<" ">> \o CollapseFrom(s, i + run)
         ELSE <<s[i]>> \o CollapseFrom(s, i + 1)
CollapseSpaces(s) == CollapseFrom(s, 1)

\* words of the patterns
W_high == <<"h","i","g","h">>
W_med == <<"m","e","d">>
W_medium == <<"m","e","d","i","u","m">>
W_low == <<"l","o","w">>
W_important == <<"i","m","p","o","r","t","a","n","t">>
W_urgent == <<"u","r","g","e","n","t">>
W_asap == <<"a","s","a","p">>
W_critical == <<"c","r","i","t","i","c","a","l">>
W_today == <<"t","o","d","a","y">>
W_tomorrow == <<"t","o","m","o","r","r","o","w">>
W_review == <<"r","e","v","i","e","w">>
W_plan == <<"p","l","a","n">>
W_someday == <<"s","o","m","e","d","a","y">>
W_proj == <<"p","r","o","j",":">>
W_Untitled == <<"U","n","t","i","t","l","e","d">>

-----------------------------------------------------------------------------
(* Time: startOfDay, endOfDay, addDays, Date.prototype.setHours.           *)

\* ticks (hours) in a local day
DayTicks == 24
\* moveToBucket's anchor hours: today at 17:00, in three days at 09:00
TodayHour == 17
WeekHour == 9
MoveWeekDays == 3
\* the board's week: the end of the day seven days from now
WeekDays == 7
\* inferPriority's due-proximity thresholds, in hours
HighHours == 24
MediumHours == 72

\* x.setHours(h, 0, 0, 0) on the local day of t
SetHours(t, h) == (t \div DayTicks) * DayTicks + h
startOfDay(t) == SetHours(t, 0)
endOfDay(t) == SetHours(t, 0) + (DayTicks - 1)
addDays(t, days) == t + days * DayTicks

-----------------------------------------------------------------------------
(* extractTokens.                                                          *)

\* the length of the run of tag characters that starts at position i
RECURSIVE TagRun(_, _)
TagRun(s, i) == IF i <= Len(s) /\ IsTagChar(s[i]) THEN 1 + TagRun(s, i + 1) ELSE 0
\* the length of the match of /#([\p{L}\p{N}_:-]+)/u at position i, 0 for none
TagLenAt(s, i) ==
    IF i <= Len(s) /\ s[i] = "#" /\ TagRun(s, i + 1) >= 1 THEN 1 + TagRun(s, i + 1) ELSE 0

\* the length of the match of /!(high|med(?:ium)?|low)/i at position i, 0 for none
MarkerLenAt(s, i) ==
    IF i > Len(s) \/ s[i] # "!" THEN 0
    ELSE LET rest == ToLower(Drop(s, i + 1)) IN
         IF StartsWith(rest, W_high) THEN 1 + Len(W_high)
         ELSE IF StartsWith(rest, W_medium) THEN 1 + Len(W_medium)
         ELSE IF StartsWith(rest, W_med) THEN 1 + Len(W_med)
         ELSE IF StartsWith(rest, W_low) THEN 1 + Len(W_low)
         ELSE 0

\* text.matchAll(/#(...)/gu).map(m => m[1].toLowerCase()): the captures of the
\* successive matches, scanning from position i
RECURSIVE TagCaptures(_, _)
TagCaptures(s, i) ==
    IF i > Len(s) THEN <<>>
    ELSE LET n == TagLenAt(s, i) IN
         IF n > 0 THEN <<ToLower(SubSeq(s, i + 1, i + n - 1))>> \o TagCaptures(s, i + n)
         ELSE TagCaptures(s, i + 1)

\* Array.from(new Set(xs)): duplicates dropped, first occurrences kept in order
RECURSIVE Dedupe(_)
Dedupe(xs) ==
    IF xs = <<>> THEN <<>>
    ELSE LET front == Dedupe(SubSeq(xs, 1, Len(xs) - 1))
             x == xs[Len(xs)]
         IN IF \E k \in 1..Len(front) : front[k] = x THEN front ELSE Append(front, x)

\* .replace(/#(...)/gu, ""): one left-to-right pass deleting each match
RECURSIVE RemoveTagsFrom(_, _)
RemoveTagsFrom(s, i) ==
    IF i > Len(s) THEN <<>>
    ELSE LET n == TagLenAt(s, i) IN
         IF n > 0 THEN RemoveTagsFrom(s, i + n)
         ELSE <<s[i]>> \o RemoveTagsFrom(s, i + 1)
RemoveTags(s) == RemoveTagsFrom(s, 1)

\* .replace(/!(high|med(?:ium)?|low)/gi, ""): one left-to-right pass
RECURSIVE RemoveMarkersFrom(_, _)
RemoveMarkersFrom(s, i) ==
    IF i > Len(s) THEN <<>>
    ELSE LET n == MarkerLenAt(s, i) IN
         IF n > 0 THEN RemoveMarkersFrom(s, i + n)
         ELSE <<s[i]>> \o RemoveMarkersFrom(s, i + 1)
RemoveMarkers(s) == RemoveMarkersFrom(s, 1)

\* a variant of FirstMarkerPos that answers the rightmost match
FirstMarkerPos_Rightmost(s) ==
    IF \E i \in 1..Len(s) : MarkerLenAt(s, i) > 0
    THEN CHOOSE i \in 1..Len(s) :
            /\ MarkerLenAt(s, i) > 0
            /\ \A j \in (i + 1)..Len(s) : MarkerLenAt(s, j) = 0
    ELSE 0

\* text.match(/!(high|med(?:ium)?|low)/i): the position of the leftmost match,
\* 0 when there is none
FirstMarkerPos(s) ==
    IF \E i \in 1..Len(s) : MarkerLenAt(s, i) > 0
    THEN CHOOSE i \in 1..Len(s) :
            /\ MarkerLenAt(s, i) > 0
            /\ \A j \in 1..(i - 1) : MarkerLenAt(s, j) = 0
    ELSE 0

\* the priority of the marker matched at position i (prMatch[1].toLowerCase())
MarkerPriority(s, i) ==
    LET p == ToLower(SubSeq(s, i + 1, i + MarkerLenAt(s, i) - 1)) IN
    IF StartsWith(p, W_high) THEN "high"
    ELSE IF StartsWith(p, W_low) THEN "low"
    ELSE "medium"

extractTokens(text) ==
    LET tags == Dedupe(TagCaptures(text, 1))
        pos == FirstMarkerPos(text)
        priority == IF pos > 0 THEN MarkerPriority(text, pos) ELSE NoPriority
        cleaned == Trim(CollapseSpaces(RemoveMarkers(RemoveTags(text))))
    IN [cleaned |-> cleaned, tags |-> tags, priority |-> priority]

-----------------------------------------------------------------------------
(* inferPriority.                                                          *)

UrgentWords == {W_urgent, W_asap, W_critical, W_today}
PlanningWords == {W_review, W_plan, W_someday}

\* a variant of inferPriority whose high band ends before 24 hours
inferPriority_Under24(text, due, at) ==
    LET t == ToLower(text) IN
    IF HasBang(t, {W_high, W_important, W_urgent}) \/ HasWord(t, UrgentWords) THEN "high"
    ELSE IF HasBang(t, {W_med, W_medium}) THEN "medium"
    ELSE IF HasBang(t, {W_low}) THEN "low"
    ELSE IF TruthyNum(due) /\ due - at < HighHours THEN "high"
    ELSE IF TruthyNum(due) /\ due - at <= MediumHours THEN "medium"
    ELSE IF HasWord(t, PlanningWords) THEN "low"
    ELSE "medium"

\* due is a number or NoDue; at is Date.now()
inferPriority(text, due, at) ==
    LET t == ToLower(text) IN
    IF HasBang(t, {W_high, W_important, W_urgent}) \/ HasWord(t, UrgentWords) THEN "high"
    ELSE IF HasBang(t, {W_med, W_medium}) THEN "medium"
    ELSE IF HasBang(t, {W_low}) THEN "low"
    ELSE IF TruthyNum(due) /\ due - at <= HighHours THEN "high"
    ELSE IF TruthyNum(due) /\ due - at <= MediumHours THEN "medium"
    ELSE IF HasWord(t, PlanningWords) THEN "low"
    ELSE "medium"

-----------------------------------------------------------------------------
(* The date resolver, chrono.parse(cleaned, new Date(), {forwardDate: true}).*)
(* It is a library outside the repository.  The model knows three phrases: *)
(* "today", "tomorrow" (they stand for the relative date phrases, which    *)
(* may carry a weekday or a time: the resolver may answer any instant of   *)
(* NearInstants), and "1970" (it stands for a full date-and-time phrase    *)
(* that names the epoch instant, 0).  The resolver finds the leftmost      *)
(* phrase that stands as a word of the text.                               *)

W_epoch == <<"1","9","7","0">>
DatePhrases == {W_today, W_tomorrow, W_epoch}

NoMatch == [found |-> FALSE, index |-> 0, len |-> 0, date |-> NoDue]

\* the instants a relative date phrase may resolve to, seen from the instant
\* at: one already past, and the instants around the 24-hour and 72-hour marks
NearInstants(at) ==
    {at - 1, at + HighHours, at + HighHours + 1, at + MediumHours, at + MediumHours + 1}
\* the instants the phrase w may resolve to
ResolvedInstants(w, at) == IF w = W_epoch THEN {0} ELSE NearInstants(at)

\* whether a date phrase stands at position i of the lowercased text
PhraseAt(lower, i) == \E w \in DatePhrases : WordAt(lower, i, w)

\* the possible values of parsed[0] (index is 0-based, as in the code), or
\* NoMatch when parsed is empty
ChronoFirst(text, at) ==
    LET lower == ToLower(text) IN
    IF \E i \in 1..Len(text) : PhraseAt(lower, i)
    THEN LET pos == CHOOSE i \in 1..Len(text) :
                        PhraseAt(lower, i) /\ \A j \in 1..(i - 1) : ~PhraseAt(lower, j)
             w == CHOOSE x \in DatePhrases : WordAt(lower, pos, x)
         IN {[found |-> TRUE, index |-> pos - 1, len |-> Len(w), date |-> d] :
                d \in ResolvedInstants(w, at)}
    ELSE {NoMatch}

-----------------------------------------------------------------------------
(* parseTask.                                                              *)

\* the title once the first date match is cut out of the cleaned text:
\* (cleaned.slice(0, start) + " " + cleaned.slice(end)).replace(/\s{2,}/g, " ").trim()
ExciseDate(cleaned, m) ==
    Trim(CollapseSpaces(SubSeq(cleaned, 1, m.index) \o <<" ">>
                        \o Drop(cleaned, m.index + m.len + 1)))

\* a variant of parseTask that prefers the inferred priority to the marker's
parseTask_InferredFirst(text, m, at) ==
    LET ext == extractTokens(text)
        due == IF m.found THEN m.date ELSE NoDue
        title == IF m.found THEN ExciseDate(ext.cleaned, m) ELSE ext.cleaned
        inferred == inferPriority(ext.cleaned, due, at)
    IN [title |-> IF title # <<>> THEN title ELSE ext.cleaned,
        due |-> due,
        tags |-> ext.tags,
        priority |-> inferred]
\* a variant of parseTask that keeps an empty title
parseTask_NoFallback(text, m, at) ==
    LET ext == extractTokens(text)
        due == IF m.found THEN m.date ELSE NoDue
        title == IF m.found THEN ExciseDate(ext.cleaned, m) ELSE ext.cleaned
        inferred == inferPriority(ext.cleaned, due, at)
    IN [title |-> title,
        due |-> due,
        tags |-> ext.tags,
        priority |-> IF ext.priority # NoPriority THEN ext.priority ELSE inferred]

\* m is what chrono.parse answers for the cleaned text (parsed[0] or NoMatch),
\* at is Date.now()
parseTask(text, m, at) ==
    LET ext == extractTokens(text)
        due == IF m.found THEN m.date ELSE NoDue
        title == IF m.found THEN ExciseDate(ext.cleaned, m) ELSE ext.cleaned
        inferred == inferPriority(ext.cleaned, due, at)
    IN [title |-> IF title # <<>> THEN title ELSE ext.cleaned,
        due |-> due,
        tags |-> ext.tags,
        priority |-> IF ext.priority # NoPriority THEN ext.priority ELSE inferred]

\* tags.find((x) => x.startsWith("proj:"))?.slice(5)
ProjectOf(tags) ==
    IF \E k \in 1..Len(tags) : StartsWith(tags[k], W_proj)
    THEN LET k == CHOOSE i \in 1..Len(tags) :
                      /\ StartsWith(tags[i], W_proj)
                      /\ \A j \in 1..(i - 1) : ~StartsWith(tags[j], W_proj)
         IN Drop(tags[k], Len(W_proj) + 1)
    ELSE Absent

-----------------------------------------------------------------------------
(* The task organizer: filtered, visible, buckets.                         *)

\* xs.join(" ")
RECURSIVE JoinSpace(_)
JoinSpace(xs) ==
    IF xs = <<>> THEN <<>>
    ELSE IF Len(xs) = 1 THEN xs[1]
    ELSE xs[1] \o <<" ">> \o JoinSpace(Tail(xs))

\* (t.title + " " + (t.notes || "") + " " + t.tags.join(" ")).toLowerCase()
Hay(t) ==
    ToLower(t.title \o <<" ">> \o (IF TruthyStr(t.notes) THEN t.notes ELSE <<>>)
            \o <<" ">> \o JoinSpace(t.tags))

\* a variant of PassesFilter whose search keeps the case of the search text
PassesFilter_CaseSensitive(t, sd, ftag, fproj, ftext) ==
    /\ (IF sd THEN TRUE ELSE ~t.done)
    /\ (IF TruthyStr(ftag) THEN \E k \in 1..Len(t.tags) : t.tags[k] = ftag ELSE TRUE)
    /\ (IF TruthyStr(fproj) THEN t.project = fproj ELSE TRUE)
    /\ Includes(Hay(t), ftext)

\* the conjunction of the four .filter() predicates
PassesFilter(t, sd, ftag, fproj, ftext) ==
    /\ (IF sd THEN TRUE ELSE ~t.done)
    /\ (IF TruthyStr(ftag) THEN \E k \in 1..Len(t.tags) : t.tags[k] = ftag ELSE TRUE)
    /\ (IF TruthyStr(fproj) THEN t.project = fproj ELSE TRUE)
    /\ Includes(Hay(t), ToLower(ftext))

\* Array.prototype.filter
RECURSIVE FilterTasks(_, _, _, _, _)
FilterTasks(ts, sd, ftag, fproj, ftext) ==
    IF ts = <<>> THEN <<>>
    ELSE (IF PassesFilter(ts[1], sd, ftag, fproj, ftext) THEN <<ts[1]>> ELSE <<>>)
         \o FilterTasks(Tail(ts), sd, ftag, fproj, ftext)

\* const pRank = { high: 0, medium: 1, low: 2 }
pRank == [high |-> 0, medium |-> 1, low |-> 2]
\* pRank[a.priority] - pRank[b.priority], as a sign; a priority outside pRank
\* looks up undefined, the difference is NaN, and sort takes NaN for 0
RankOrder(a, b) ==
    IF a.priority \in DOMAIN pRank /\ b.priority \in DOMAIN pRank
    THEN pRank[a.priority] - pRank[b.priority]
    ELSE 0
\* (a.due || Infinity) - (b.due || Infinity), as a sign; Infinity - Infinity is
\* NaN, again 0 to sort
DueOrder(a, b) ==
    IF TruthyNum(a.due) /\ TruthyNum(b.due) THEN a.due - b.due
    ELSE IF TruthyNum(a.due) THEN -1
    ELSE IF TruthyNum(b.due) THEN 1
    ELSE 0

\* the comparator of visible
ListOrder(a, b) ==
    IF a.done # b.done THEN (IF a.done THEN 1 ELSE -1)
    ELSE IF RankOrder(a, b) # 0 THEN RankOrder(a, b)
    ELSE IF DueOrder(a, b) # 0 THEN DueOrder(a, b)
    ELSE a.createdAt - b.createdAt
\* byUrgency, the comparator of the today, week and later columns
byUrgency(a, b) == IF RankOrder(a, b) # 0 THEN RankOrder(a, b) ELSE DueOrder(a, b)

\* the comparators by name
Compare(order, a, b) ==
    IF order = "list" THEN ListOrder(a, b)
    ELSE IF order = "urgency" THEN byUrgency(a, b)
    ELSE DueOrder(a, b)

\* Array.prototype.sort is stable: x goes behind every element that does not
\* sort after it
RECURSIVE InsertSorted(_, _, _)
InsertSorted(sorted, x, order) ==
    IF sorted = <<>> THEN <<x>>
    ELSE IF Compare(order, x, sorted[1]) < 0 THEN <<x>> \o sorted
    ELSE <<sorted[1]>> \o InsertSorted(Tail(sorted), x, order)
RECURSIVE SortTasks(_, _)
SortTasks(ts, order) ==
    IF ts = <<>> THEN <<>>
    ELSE InsertSorted(SortTasks(SubSeq(ts, 1, Len(ts) - 1), order), ts[Len(ts)], order)

\* a variant of BucketOf whose today column ends before the last tick of today
BucketOf_ShortToday(t, at) ==
    IF t.done THEN "done"
    ELSE IF TruthyNum(t.due) /\ t.due < endOfDay(at) /\ t.due >= startOfDay(at) THEN "today"
    ELSE IF TruthyNum(t.due) /\ t.due > endOfDay(at) /\ t.due <= endOfDay(addDays(at, WeekDays))
         THEN "week"
    ELSE "later"

\* a variant of the week test that stops short of the last instant of the
\* seventh day
BucketOf_ShortWeek(t, at) ==
    IF t.done THEN "done"
    ELSE IF TruthyNum(t.due) /\ t.due <= endOfDay(at) /\ t.due >= startOfDay(at) THEN "today"
    ELSE IF TruthyNum(t.due) /\ t.due > endOfDay(at) /\ t.due < endOfDay(addDays(at, WeekDays))
         THEN "week"
    ELSE "later"

\* the column the loop of buckets pushes t to, at the instant at
BucketOf(t, at) ==
    IF t.done THEN "done"
    ELSE IF TruthyNum(t.due) /\ t.due <= endOfDay(at) /\ t.due >= startOfDay(at) THEN "today"
    ELSE IF TruthyNum(t.due) /\ t.due > endOfDay(at) /\ t.due <= endOfDay(addDays(at, WeekDays))
         THEN "week"
    ELSE "later"

RECURSIVE Column(_, _, _)
Column(ts, key, at) ==
    IF ts = <<>> THEN <<>>
    ELSE (IF BucketOf(ts[1], at) = key THEN <<ts[1]>> ELSE <<>>) \o Column(Tail(ts), key, at)

\* buckets: the four columns of the filtered tasks, each sorted
buckets(ts, at) ==
    [today |-> SortTasks(Column(ts, "today", at), "urgency"),
     week |-> SortTasks(Column(ts, "week", at), "urgency"),
     later |-> SortTasks(Column(ts, "later", at), "urgency"),
     done |-> SortTasks(Column(ts, "done", at), "due")]

\* the derived values of a render
Filtered == FilterTasks(tasks, showDone, filterTag, filterProject, filterText)
Visible == SortTasks(Filtered, "list")
Board == buckets(Filtered, now)

\* allTags, allProjects: what the filter menu offers
AllTags == UNION {{tasks[i].tags[k] : k \in 1..Len(tasks[i].tags)} : i \in 1..Len(tasks)}
AllProjects == {tasks[i].project : i \in 1..Len(tasks)} \ {Absent, <<>>}

-----------------------------------------------------------------------------
(* JSON documents: what "Export JSON" writes and "Import JSON" reads.      *)
(* A document is text that does not parse (kind "invalid"), a value that   *)
(* is not an array (kind "object") or an array of elements.  An element is *)
(* null or carries the ten keys of a task; a key that is missing reads as  *)
(* undefined: "" for the id, Absent for a text, NoDue for a number,        *)
(* NotArray for the tags, NoPriority for the priority, false for done.     *)

NotArray == << <<"<no array>">> >>
JsonElem(isNull, id, title, nts, createdAt, due, tags, project, priority, done) ==
    [null |-> isNull, id |-> id, title |-> title, notes |-> nts, createdAt |-> createdAt,
     due |-> due, tags |-> tags, project |-> project, priority |-> priority, done |-> done,
     subtasks |-> <<>>]
NoDoc == [kind |-> "none", elems |-> <<>>]

\* JSON.stringify(tasks, null, 2) read back by JSON.parse: a key whose value
\* is undefined is left out and reads as undefined again
JsonOfTask(t) ==
    JsonElem(FALSE, t.id, t.title, t.notes, t.createdAt, t.due, t.tags, t.project,
             t.priority, t.done)
ExportDoc(ts) == [kind |-> "array", elems |-> [i \in 1..Len(ts) |-> JsonOfTask(ts[i])]]

\* the object importJSON makes of one element; id is what uid() answers, at
\* is Date.now()
ImportTask(e, id, at) ==
    [id |-> IF e.id # "" THEN e.id ELSE id,
     title |-> IF TruthyStr(e.title) THEN e.title ELSE W_Untitled,
     notes |-> IF TruthyStr(e.notes) THEN e.notes ELSE <<>>,
     createdAt |-> IF TruthyNum(e.createdAt) THEN e.createdAt ELSE at,
     due |-> IF TruthyNum(e.due) THEN e.due ELSE NoDue,
     tags |-> IF e.tags # NotArray THEN e.tags ELSE <<>>,
     project |-> IF TruthyStr(e.project) THEN e.project ELSE Absent,
     priority |-> IF e.priority # NoPriority /\ e.priority # "" THEN e.priority ELSE "medium",
     done |-> e.done,
     subtasks |-> e.subtasks]

\* a variant of ImportError in which reading a key of null throws nothing
ImportError_NullPasses(doc) ==
    IF doc.kind = "invalid" THEN "SyntaxError"
    ELSE IF doc.kind # "array" THEN "Invalid format"
    ELSE ""

\* what importJSON throws inside its try block, "" when it throws nothing:
\* JSON.parse throws on text that does not parse, the handler throws
\* "Invalid format" on a value that is no array, and t.id throws on null
ImportError(doc) ==
    IF doc.kind = "invalid" THEN "SyntaxError"
    ELSE IF doc.kind # "array" THEN "Invalid format"
    ELSE IF \E i \in 1..Len(doc.elems) : doc.elems[i].null THEN "TypeError"
    ELSE ""

-----------------------------------------------------------------------------
(* callLLM.  A prompt is the request it was built for ("summarize" by      *)
(* summarizeDay, "break down" by breakDownTask) and the task title quoted  *)
(* in it.  A reply is what the remote endpoint does with one request.      *)

SummaryText == "Here's a quick plan: focus on high-priority items due today, then tackle medium ones due this week. Leave low-priority tasks for later."
SubtasksText == "Subtasks: 1) Clarify scope, 2) List resources, 3) Set milestones, 4) Schedule work blocks, 5) Review & adjust."
MockText == "(Mock AI) I'd prioritize urgent, time-bound tasks first, then group related work for flow. Add deadlines when possible."
NoResponseText == "No response from the model."
FailedText == "AI call failed. Using local heuristic instead."
\* the text of a model that answered
AnswerText == "1) Plan 2) Do 3) Review"

W_summarize == <<"s","u","m","m","a","r","i","z","e">>

SummarizePrompt == [kind |-> "summarize", title |-> <<>>]
BreakDownPrompt(title) == [kind |-> "break down", title |-> title]

\* /summarize/i.test(prompt): the prompt of summarizeDay begins with the
\* word; the prompt of breakDownTask has it when the quoted title has it
TestSummarize(prompt) ==
    prompt.kind = "summarize" \/ Includes(ToLower(prompt.title), W_summarize)
\* /break down/i.test(prompt)
TestBreakDown(prompt) == prompt.kind = "break down"

\* what the endpoint does:
\*   "network"   fetch rejects (no connection, DNS, CORS)
\*   "auth"      status 401, the body a JSON object {"error": {...}}
\*   "notjson"   the body is not JSON: res.json() rejects
\*   "nonstring" choices[0].message.content is not a string: .trim is not
\*               a function
\*   "nocontent" choices[0].message.content is null
\*   "blank"     the content is white space
\*   "answer"    status 200, the content is AnswerText
Replies == {"network", "auth", "notjson", "nonstring", "nocontent", "blank", "answer"}
NoReply == "none"

\* the try block up to the computation of text: whether it throws, and the
\* value of json?.choices?.[0]?.message?.content?.trim() when it does not
\* ("" stands for undefined as well: both are falsy)
RemoteText(reply) ==
    CASE reply = "network"   -> [throws |-> TRUE,  text |-> ""]
      [] reply = "notjson"   -> [throws |-> TRUE,  text |-> ""]
      [] reply = "nonstring" -> [throws |-> TRUE,  text |-> ""]
      [] reply = "auth"      -> [throws |-> FALSE, text |-> ""]
      [] reply = "nocontent" -> [throws |-> FALSE, text |-> ""]
      [] reply = "blank"     -> [throws |-> FALSE, text |-> ""]
      [] reply = "answer"    -> [throws |-> FALSE, text |-> AnswerText]

\* callLLM(prompt, apiKey) against an endpoint that answers with reply:
\* the text its promise resolves to and whether fetch was called
callLLM(prompt, apiKey, reply) ==
    IF apiKey = ""
    THEN [remote |-> FALSE,
          text |-> IF TestSummarize(prompt) THEN SummaryText
                   ELSE IF TestBreakDown(prompt) THEN SubtasksText
                   ELSE MockText]
    ELSE LET r == RemoteText(reply) IN
         [remote |-> TRUE,
          text |-> IF r.throws THEN FailedText
                   ELSE IF r.text # "" THEN r.text
                   ELSE NoResponseText]

-----------------------------------------------------------------------------
(* The inputs the model types into the quick-add box.                      *)

\* the pieces of the texts that exercise the token extractor: markers in
\* either case, pieces that make a marker or a tag only when joined, tags
ExtractTokens ==
    { <<"!">> \o W_high, <<"!">> \o W_med, <<"!">> \o W_medium, <<"!","L","O","W">>,
      <<"#">>, <<"!">>, <<" ">>, <<"a">>, <<"!","h","i">>, <<"g","h">>,
      <<"#","W">>, <<"#">> \o W_proj \o <<"x">> }
\* the pieces of the texts that exercise the priority and the date rules
Tokens ==
    { <<"!","L","O","W">>, <<"!">> \o W_important,
      <<"!">>, <<" ">>, <<"a">>, <<"#","W">>, <<"#">>,
      W_urgent, W_plan, W_today, W_tomorrow, W_epoch }

\* the texts of at most n pieces
RECURSIVE TextsUpTo(_, _)
TextsUpTo(pieces, n) ==
    IF n = 0 THEN {<<>>}
    ELSE LET shorter == TextsUpTo(pieces, n - 1) IN
         shorter \cup {p \o t : p \in shorter, t \in pieces}
Texts == TextsUpTo(Tokens, MaxTokens)
ExtractTexts == TextsUpTo(ExtractTokens, MaxTokens)

Ids == {"t1", "t2"}
\* uid(): eight random base-36 digits.  The model takes an answer for new:
\* it is an id of Ids that is not among the ids in use
uid(used) == Ids \ used

\* the instants the model looks at the clock: the first and the last tick of
\* each of the days 1 .. MaxDay
ClockInstants == UNION {{d * DayTicks, d * DayTicks + (DayTicks - 1)} : d \in 1..MaxDay}

\* what the model types into the quick-add box in the application runs
SampleInputs == { <<"a"," ","#","W">> }

\* Collections the application may find in storage when it starts
\* (useState's initializer reads them from localStorage).
Task(id, title, nts, createdAt, due, tags, priority, done) ==
    [id |-> id, title |-> title, notes |-> nts, createdAt |-> createdAt, due |-> due,
     tags |-> tags, project |-> ProjectOf(tags), priority |-> priority, done |-> done,
     subtasks |-> <<>>]

\* all sequences of at most n elements of S
RECURSIVE SeqsUpTo(_, _)
SeqsUpTo(S, n) ==
    IF n = 0 THEN {<<>>}
    ELSE LET shorter == SeqsUpTo(S, n - 1) IN
         shorter \cup {Append(q, x) : q \in shorter, x \in S}

\* the dues the board's boundaries fall on or next to, for the days the clock
\* runs over: the last tick of a day and the first of the next, up to the day
\* after MaxDay, and around the end of the week of each day
DueSamples ==
    {NoDue, 0}
    \cup UNION {{d * DayTicks - 1, d * DayTicks} : d \in 1..(MaxDay + 1)}
    \cup UNION {{(d + WeekDays + 1) * DayTicks - 1, (d + WeekDays + 1) * DayTicks} :
                   d \in 1..MaxDay}

\* for the board: an open task of every due of DueSamples, a completed task
\* without a due and one due on day 1
BoardSamples ==
    {Task("t1", <<"a">>, Absent, 1, due, <<>>, "medium", FALSE) : due \in DueSamples}
    \cup {Task("t1", <<"a">>, Absent, 1, due, <<>>, "medium", TRUE) :
              due \in {NoDue, 2 * DayTicks - 1}}
\* for the list: the four sort keys
ListSamples ==
    {Task("t1", <<"a">>, Absent, createdAt, due, <<>>, priority, done) :
        createdAt \in {1, 2}, due \in {NoDue, 0, DayTicks + 6}, priority \in Priorities,
        done \in BOOLEAN}
\* for the filter: what the four predicates read
FilterSamples ==
    {Task("t1", title, nts, 1, NoDue, tags, "medium", done) :
        title \in {<<"A","b">>, <<"c">>}, nts \in {Absent, <<"n">>},
        tags \in {<<>>, <<<<"w">>>>, <<<<"w">>, W_proj \o <<"x">>>>}, done \in BOOLEAN}
\* for the moves: an open task without a due and a completed one with a due
MoveSamples ==
    {Task("t1", <<"a">>, <<"n">>, 1, NoDue, <<<<"w">>>>, "medium", FALSE),
     Task("t2", W_plan, Absent, 2, DayTicks + 6, <<W_proj \o <<"x">>>>, "low", TRUE)}

\* the elements of the documents the model imports: an element without any
\* key ({} or a number), one that has every key, with values the schema does
\* not allow, and null
BareElem ==
    JsonElem(FALSE, "", Absent, Absent, NoDue, NoDue, NotArray, Absent, NoPriority, FALSE)
OddElem ==
    JsonElem(FALSE, "t1", <<>>, <<>>, 0, 0, <<<<"W">>, <<"W">>>>, <<"y">>, "urgent", TRUE)
NullElem ==
    JsonElem(TRUE, "", Absent, Absent, NoDue, NoDue, NotArray, Absent, NoPriority, FALSE)
ImportElems == {BareElem, OddElem, NullElem}
ImportDocs ==
    {[kind |-> "invalid", elems |-> <<>>], [kind |-> "object", elems |-> <<>>]}
    \cup {[kind |-> "array", elems |-> es] : es \in SeqsUpTo(ImportElems, MaxTasks)}

\* for the bumps: a task of each id and each priority a stored task may
\* have, "urgent" being one an import leaves in the collection
BumpSamples ==
    {Task(id, <<"a">>, Absent, 1, NoDue, <<>>, priority, FALSE) :
        id \in Ids, priority \in Priorities \cup {"urgent"}}

\* for export and import: tasks with and without notes, with no due, a due
\* at the epoch instant and a later due, open and completed
FileSamples ==
    {[Task("t1", <<"a">>, nts, 1, due, <<<<"w">>, W_proj \o <<"x">>>>, "high", done)
         EXCEPT !.subtasks = <<>>] :
        nts \in {Absent, <<>>, <<"n">>}, due \in {NoDue, 0, DayTicks + 6}, done \in BOOLEAN}

\* for the assistant: a task and a task whose title has the word summarize
LLMSamples ==
    {Task("t1", <<"a">>, Absent, 1, NoDue, <<>>, "medium", FALSE),
     Task("t2", <<"S">> \o Drop(W_summarize, 2), Absent, 1, NoDue, <<>>, "medium", FALSE)}
\* what the model types into the API key box
ApiKeys == {"", "sk-1"}

\* for the per-task mutations: tasks that differ in id and creation instant;
\* an import can store two tasks under one id
EditSamples ==
    {Task(id, <<"a">>, Absent, createdAt, NoDue, <<>>, priority, FALSE) :
        id \in {"t1", "t2"}, createdAt \in {1, 2}, priority \in {"low"}}

\* what the model types into the tags box of the edit dialog
EditTagTexts == { <<"#","W"," ","#","w">>, <<"#">> \o W_proj \o <<"x">> }

\* what the model types into the search box
SearchTexts == {<<>>, <<"A">>, <<"b"," ","n">>, <<"w">>, <<"z">>}

-----------------------------------------------------------------------------
(* History.                                                                *)

\* the assistant panel before any request: useState(false), useState("")
\* editing === null: the edit dialog is closed
NoEditing == [null |-> TRUE]

\* the values of newest before any call and while the newest call is in
\* flight
NoRequest == "<no request>"
Outstanding == "<outstanding>"

AiIdle ==
    /\ aiKey = ""
    /\ aiWorking = FALSE
    /\ aiOutput = ""
    /\ pending = <<>>
    /\ newest = NoRequest

NoExt == [cleaned |-> <<>>, tags |-> <<>>, priority |-> NoPriority]
\* op: the handler; id, arg: its arguments; text: the trimmed input of a
\* quick-add, ext: what extractTokens made of it, match: what the resolver
\* answered; at: Date.now() in the handler
\* doc: the document an export wrote or an import read; was: the priority
\* the first task of that id had when bumpPriority was called
NoCall == [op |-> "none", id |-> "", arg |-> "", text |-> <<>>, ext |-> NoExt,
           match |-> NoMatch, at |-> 0, doc |-> NoDoc, was |-> ""]

-----------------------------------------------------------------------------
(* Actions.                                                                *)

\* addTaskFromInput: uid() is a random string, any id may come out
AddTaskFromInput ==
    /\ Trim(input) # <<>>
    /\ Len(tasks) < MaxTasks
    /\ LET ext == extractTokens(Trim(input)) IN
       \E m \in ChronoFirst(ext.cleaned, now) :
          LET base == parseTask(Trim(input), m, now) IN
          \E id \in uid({tasks[i].id : i \in 1..Len(tasks)}) :
             LET t == [id |-> id,
                       title |-> IF base.title # <<>> THEN base.title ELSE Trim(input),
                       notes |-> IF Trim(notes) # <<>> THEN Trim(notes) ELSE Absent,
                       createdAt |-> now,
                       due |-> base.due,
                       tags |-> base.tags,
                       project |-> ProjectOf(base.tags),
                       priority |-> IF base.priority # NoPriority THEN base.priority
                                    ELSE "medium",
                       done |-> FALSE,
                       subtasks |-> <<>>]
             IN /\ tasks' = <<t>> \o tasks
                /\ last' = [NoCall EXCEPT !.op = "add", !.id = id, !.text = Trim(input),
                                          !.ext = ext, !.match = m, !.at = now]
    /\ input' = <<>>
    /\ notes' = <<>>
    /\ UNCHANGED <<filterText, filterTag, filterProject, showDone, now>>
    /\ UNCHANGED <<aiVars, editing>>

\* the quick-add box's onChange
TypeInput ==
    /\ \E text \in SampleInputs : input' = text
    /\ last' = [NoCall EXCEPT !.op = "type"]
    /\ UNCHANGED <<tasks, notes, filterText, filterTag, filterProject, showDone, now>>
    /\ UNCHANGED <<aiVars, editing>>

\* toggleDone
ToggleDoneTask(t, id) == IF t.id = id THEN [t EXCEPT !.done = ~t.done] ELSE t
ToggleDone ==
    /\ \E id \in Ids :
          /\ tasks' = [i \in 1..Len(tasks) |-> ToggleDoneTask(tasks[i], id)]
          /\ last' = [NoCall EXCEPT !.op = "toggle", !.id = id, !.at = now]
    /\ UNCHANGED <<input, notes, filterText, filterTag, filterProject, showDone, now>>
    /\ UNCHANGED <<aiVars, editing>>

\* removeTask; confirm() may be answered either way
RemoveTask ==
    /\ \E id \in Ids : \E confirmed \in BOOLEAN :
          /\ tasks' = IF confirmed THEN SelectSeq(tasks, LAMBDA t : t.id # id) ELSE tasks
          /\ last' = [NoCall EXCEPT !.op = "remove", !.id = id, !.at = now,
                                    !.arg = IF confirmed THEN "ok" ELSE "cancel"]
    /\ UNCHANGED <<input, notes, filterText, filterTag, filterProject, showDone, now>>
    /\ UNCHANGED <<aiVars, editing>>

\* a variant of clamp that wraps around instead
clamp_Wrap(n, min, max) == min + ((n - min) % (max - min + 1))

\* const clamp = (n, min, max) => Math.max(min, Math.min(max, n))
clamp(n, min, max) ==
    LET low == IF max < n THEN max ELSE n IN IF min > low THEN min ELSE low

\* bumpPriority; order.indexOf is 0-based and -1 for a value not in order
PriorityOrder == <<"low", "medium", "high">>
IndexOfPriority(p) ==
    IF \E k \in 1..Len(PriorityOrder) : PriorityOrder[k] = p
    THEN (CHOOSE k \in 1..Len(PriorityOrder) : PriorityOrder[k] = p) - 1
    ELSE -1
BumpTask(t, id, dir) ==
    IF t.id # id THEN t
    ELSE [t EXCEPT !.priority =
             PriorityOrder[clamp(IndexOfPriority(t.priority) + dir, 0, Len(PriorityOrder) - 1) + 1]]
BumpPriority ==
    /\ \E id \in Ids : \E dir \in {1, -1} :
          /\ tasks' = [i \in 1..Len(tasks) |-> BumpTask(tasks[i], id, dir)]
          /\ last' = [NoCall EXCEPT !.op = "bump", !.id = id, !.at = now,
                                    !.arg = IF dir = 1 THEN "+1" ELSE "-1",
                                    !.was = IF \E i \in 1..Len(tasks) : tasks[i].id = id
                                            THEN tasks[CHOOSE i \in 1..Len(tasks) :
                                                         /\ tasks[i].id = id
                                                         /\ \A j \in 1..(i - 1) : tasks[j].id # id
                                                      ].priority
                                            ELSE ""]
    /\ UNCHANGED <<input, notes, filterText, filterTag, filterProject, showDone, now>>
    /\ UNCHANGED <<aiVars, editing>>

\* a variant of MoveTask whose done branch also clears the due
MoveTask_DoneClearsDue(t, id, bucket, at) ==
    IF t.id # id THEN t
    ELSE IF bucket = "done" THEN [t EXCEPT !.done = TRUE, !.due = NoDue]
    ELSE IF bucket = "later" THEN [t EXCEPT !.due = NoDue, !.done = FALSE]
    ELSE IF bucket = "today" THEN [t EXCEPT !.due = SetHours(at, TodayHour), !.done = FALSE]
    ELSE [t EXCEPT !.due = SetHours(addDays(at, MoveWeekDays), WeekHour), !.done = FALSE]
\* a variant of MoveTask whose today branch leaves done as it was
MoveTask_TodayKeepsDone(t, id, bucket, at) ==
    IF t.id # id THEN t
    ELSE IF bucket = "done" THEN [t EXCEPT !.done = TRUE]
    ELSE IF bucket = "later" THEN [t EXCEPT !.due = NoDue, !.done = FALSE]
    ELSE IF bucket = "today" THEN [t EXCEPT !.due = SetHours(at, TodayHour)]
    ELSE [t EXCEPT !.due = SetHours(addDays(at, MoveWeekDays), WeekHour), !.done = FALSE]

\* a variant of MoveTask whose week branch schedules a day after the week
MoveTask_WeekAfter(t, id, bucket, at) ==
    IF t.id # id THEN t
    ELSE IF bucket = "done" THEN [t EXCEPT !.done = TRUE]
    ELSE IF bucket = "later" THEN [t EXCEPT !.due = NoDue, !.done = FALSE]
    ELSE IF bucket = "today" THEN [t EXCEPT !.due = SetHours(at, TodayHour), !.done = FALSE]
    ELSE [t EXCEPT !.due = SetHours(addDays(at, WeekDays + 1), WeekHour), !.done = FALSE]

\* moveToBucket: the rewrite of one task, at the instant at
MoveTask(t, id, bucket, at) ==
    IF t.id # id THEN t
    ELSE IF bucket = "done" THEN [t EXCEPT !.done = TRUE]
    ELSE IF bucket = "later" THEN [t EXCEPT !.due = NoDue, !.done = FALSE]
    ELSE IF bucket = "today" THEN [t EXCEPT !.due = SetHours(at, TodayHour), !.done = FALSE]
    ELSE [t EXCEPT !.due = SetHours(addDays(at, MoveWeekDays), WeekHour), !.done = FALSE]
MoveToBucket ==
    /\ \E id \in Ids : \E bucket \in BucketKeys :
          /\ tasks' = [i \in 1..Len(tasks) |-> MoveTask(tasks[i], id, bucket, now)]
          /\ last' = [NoCall EXCEPT !.op = "move", !.id = id, !.arg = bucket, !.at = now]
    /\ UNCHANGED <<input, notes, filterText, filterTag, filterProject, showDone, now>>
    /\ UNCHANGED <<aiVars, editing>>

\* "Reset tasks"
ResetTasks ==
    /\ tasks' = <<>>
    /\ last' = [NoCall EXCEPT !.op = "reset", !.at = now]
    /\ UNCHANGED <<input, notes, filterText, filterTag, filterProject, showDone, now>>
    /\ UNCHANGED <<aiVars, editing>>

\* the search box's onChange
SetFilterText ==
    /\ \E text \in SearchTexts : filterText' = text
    /\ last' = [NoCall EXCEPT !.op = "view"]
    /\ UNCHANGED <<tasks, input, notes, filterTag, filterProject, showDone, now>>
    /\ UNCHANGED <<aiVars, editing>>

\* the tag items of the filter menu, "(any)" and the chip's clear button
SetFilterTag ==
    /\ \E tag \in AllTags \cup {Absent} : filterTag' = tag
    /\ last' = [NoCall EXCEPT !.op = "view"]
    /\ UNCHANGED <<tasks, input, notes, filterText, filterProject, showDone, now>>
    /\ UNCHANGED <<aiVars, editing>>

\* the project items of the filter menu, "(any)" and the chip's clear button
SetFilterProject ==
    /\ \E project \in AllProjects \cup {Absent} : filterProject' = project
    /\ last' = [NoCall EXCEPT !.op = "view"]
    /\ UNCHANGED <<tasks, input, notes, filterText, filterTag, showDone, now>>
    /\ UNCHANGED <<aiVars, editing>>

\* the "Show completed" item and switch
ToggleShowDone ==
    /\ showDone' = ~showDone
    /\ last' = [NoCall EXCEPT !.op = "view"]
    /\ UNCHANGED <<tasks, input, notes, filterText, filterTag, filterProject, now>>
    /\ UNCHANGED <<aiVars, editing>>

\* time passes, to a later instant the model looks at the clock
Tick ==
    /\ \E later \in ClockInstants : later > now /\ now' = later
    /\ last' = [NoCall EXCEPT !.op = "tick"]
    /\ UNCHANGED <<tasks, input, notes, filterText, filterTag, filterProject, showDone>>
    /\ UNCHANGED <<aiVars, editing>>

\* "Export JSON": saveToFile("ai-tasks.json", JSON.stringify(tasks, null, 2))
ExportJSON ==
    /\ last' = [NoCall EXCEPT !.op = "export", !.doc = ExportDoc(tasks), !.at = now]
    /\ UNCHANGED <<tasks, input, notes, filterText, filterTag, filterProject, showDone, now>>
    /\ UNCHANGED <<aiVars, editing>>

\* "Import JSON": importJSON on the text of the chosen file, a document of
\* ImportDocs or the file the last export wrote.  alert(...) is last.arg;
\* ids is what uid() answers for each element that has no id: new ids,
\* different from the ids the document gives and from one another.
ImportJSON ==
    /\ \E doc \in ImportDocs \cup (IF last.op = "export" THEN {last.doc} ELSE {}) :
          IF ImportError(doc) # ""
          THEN /\ tasks' = tasks
               /\ last' = [NoCall EXCEPT !.op = "import", !.doc = doc, !.at = now,
                                         !.arg = ImportError(doc)]
          ELSE \E ids \in [{i \in 1..Len(doc.elems) : doc.elems[i].id = ""} ->
                                uid({doc.elems[i].id : i \in 1..Len(doc.elems)})] :
                  /\ \A i, j \in DOMAIN ids : i # j => ids[i] # ids[j]
                  /\ tasks' = [i \in 1..Len(doc.elems) |->
                                  ImportTask(doc.elems[i],
                                             IF doc.elems[i].id = "" THEN ids[i] ELSE "",
                                             now)]
                  /\ last' = [NoCall EXCEPT !.op = "import", !.doc = doc, !.at = now]
    /\ UNCHANGED <<input, notes, filterText, filterTag, filterProject, showDone, now>>
    /\ UNCHANGED <<aiVars, editing>>

\* the edit dialog, from setEditing(t) to Save: the priority buttons, the
\* tags box (onBlur) and updateTask(editing); the model leaves the text of
\* the title and notes boxes and the due as they are
EditedTags(text) == Dedupe(TagCaptures(text, 1))
SaveEdit ==
    /\ editing = NoEditing
    /\ \E i \in 1..Len(tasks) :
       \E priority \in {tasks[i].priority} \cup Priorities :
       \E tagText \in EditTagTexts \cup {Absent} :
          LET t == tasks[i]
              tags == IF tagText = Absent THEN t.tags ELSE EditedTags(tagText)
              project == IF tagText = Absent THEN t.project ELSE ProjectOf(tags)
              updated == [t EXCEPT !.priority = priority,
                                   !.tags = tags, !.project = project]
          IN /\ tasks' = [k \in 1..Len(tasks) |->
                             IF tasks[k].id = updated.id THEN updated ELSE tasks[k]]
             /\ last' = [NoCall EXCEPT !.op = "edit", !.id = updated.id, !.at = now]
    /\ UNCHANGED <<input, notes, filterText, filterTag, filterProject, showDone, now>>
    /\ UNCHANGED <<aiVars, editing>>

\* the pencil button of a row: setEditing(t)
OpenEdit ==
    /\ editing = NoEditing
    /\ \E i \in 1..Len(tasks) :
          /\ editing' = tasks[i]
          /\ last' = [NoCall EXCEPT !.op = "open", !.id = tasks[i].id, !.at = now]
    /\ UNCHANGED <<tasks, input, notes, filterText, filterTag, filterProject,
                   showDone, now>>
    /\ UNCHANGED aiVars

\* Cancel, or the dialog closed: setEditing(null)
CloseEdit ==
    /\ editing # NoEditing
    /\ editing' = NoEditing
    /\ last' = [NoCall EXCEPT !.op = "close", !.at = now]
    /\ UNCHANGED <<tasks, input, notes, filterText, filterTag, filterProject,
                   showDone, now>>
    /\ UNCHANGED aiVars

\* updateTask(updated) on a collection
updateTask(ts, updated) ==
    [k \in 1..Len(ts) |-> IF ts[k].id = updated.id THEN updated ELSE ts[k]]

\* Save of the open dialog: the priority chosen since it opened (it lives in
\* editing alone until now; the model leaves the other boxes as they are)
\* and updateTask(editing)
UpdateTask ==
    /\ editing # NoEditing
    /\ \E priority \in {editing.priority} \cup Priorities :
          LET updated == [editing EXCEPT !.priority = priority]
          IN /\ tasks' = updateTask(tasks, updated)
             /\ last' = [NoCall EXCEPT !.op = "save", !.id = updated.id, !.at = now]
    /\ editing' = NoEditing
    /\ UNCHANGED <<input, notes, filterText, filterTag, filterProject, showDone, now>>
    /\ UNCHANGED aiVars

\* the API key box
SetAiKey ==
    /\ \E k \in ApiKeys : aiKey' = k
    /\ last' = [NoCall EXCEPT !.op = "key", !.at = now]
    /\ UNCHANGED <<tasks, input, notes, filterText, filterTag, filterProject,
                   showDone, now>>
    /\ UNCHANGED <<aiWorking, aiOutput, pending, newest, editing>>

\* the calls in flight, none of them the newest any more
Older(calls) == [k \in 1..Len(calls) |-> [calls[k] EXCEPT !.newest = FALSE]]

\* summarizeDay and breakDownTask from setAiWorking(true) on.  Without a key
\* callLLM returns its local text at once: the await resumes in the same
\* turn of the event loop, before any other handler runs, and the text and
\* setAiWorking(false) follow.  With a key the function stops at the await
\* until fetch settles.
IssueCall(prompt, op, id) ==
    IF aiKey = ""
    THEN LET res == callLLM(prompt, "", NoReply) IN
         /\ aiOutput' = res.text
         /\ aiWorking' = FALSE
         /\ pending' = Older(pending)
         /\ newest' = res.text
         /\ last' = [NoCall EXCEPT !.op = "llm", !.id = id, !.arg = res.text,
                                   !.was = NoReply, !.at = now,
                                   !.doc = [kind |-> "call", elems |-> <<>>,
                                            prompt |-> prompt, key |-> "",
                                            remote |-> res.remote]]
    ELSE /\ Len(pending) < MaxCalls
         /\ aiWorking' = TRUE
         /\ pending' = Append(Older(pending),
                              [prompt |-> prompt, key |-> aiKey, newest |-> TRUE])
         /\ newest' = Outstanding
         /\ aiOutput' = aiOutput
         /\ last' = [NoCall EXCEPT !.op = op, !.id = id, !.at = now]

\* summarizeDay: the button is disabled while aiWorking
SummarizeDay ==
    /\ ~aiWorking
    /\ IssueCall(SummarizePrompt, "summarize", "")
    /\ UNCHANGED <<tasks, input, notes, filterText, filterTag, filterProject,
                   showDone, now>>
    /\ UNCHANGED <<aiKey, editing>>

\* breakDownTask(t): its buttons are never disabled
BreakDownTask ==
    /\ \E i \in 1..Len(tasks) :
          IssueCall(BreakDownPrompt(tasks[i].title), "break down", tasks[i].id)
    /\ UNCHANGED <<tasks, input, notes, filterText, filterTag, filterProject,
                   showDone, now>>
    /\ UNCHANGED <<aiKey, editing>>

\* fetch settles for one call in flight, in any order, and summarizeDay or
\* breakDownTask resumes after its await
SettleCall ==
    /\ \E k \in 1..Len(pending) :
          \E reply \in Replies :
             LET call == pending[k]
                 res == callLLM(call.prompt, call.key, reply) IN
             /\ aiOutput' = res.text
             /\ pending' = [j \in 1..(Len(pending) - 1) |->
                               IF j < k THEN pending[j] ELSE pending[j + 1]]
             /\ newest' = IF call.newest THEN res.text ELSE newest
             /\ last' = [NoCall EXCEPT !.op = "llm", !.arg = res.text,
                                       !.was = reply, !.at = now,
                                       !.doc = [kind |-> "call", elems |-> <<>>,
                                                prompt |-> call.prompt,
                                                key |-> call.key,
                                                remote |-> res.remote]]
    /\ aiWorking' = FALSE
    /\ UNCHANGED <<tasks, input, notes, filterText, filterTag, filterProject,
                   showDone, now>>
    /\ UNCHANGED <<aiKey, editing>>

-----------------------------------------------------------------------------
(* The ingestion runs: one quick-add of every text of Texts.               *)

InitIngest ==
    /\ tasks = <<>>
    /\ input \in Texts
    /\ notes = <<"n"," ">>
    /\ filterText = <<>>
    /\ filterTag = Absent
    /\ filterProject = Absent
    /\ showDone = FALSE
    /\ now = DayTicks
    /\ last = NoCall
    /\ AiIdle
    /\ editing = NoEditing

NextIngest == AddTaskFromInput

SpecIngest == InitIngest /\ [][NextIngest]_vars

\* the same run over the texts that exercise the token extractor
InitExtract ==
    /\ tasks = <<>>
    /\ input \in ExtractTexts
    /\ notes = <<>>
    /\ filterText = <<>>
    /\ filterTag = Absent
    /\ filterProject = Absent
    /\ showDone = FALSE
    /\ now = DayTicks
    /\ last = NoCall
    /\ AiIdle
    /\ editing = NoEditing

NextExtract == AddTaskFromInput

SpecExtract == InitExtract /\ [][NextExtract]_vars

-----------------------------------------------------------------------------
(* Claims about the ingestion pipeline, checked under SpecIngest.          *)

\* the quick-add that has just run: its trimmed input, what extractTokens
\* made of it, the due the resolver gave, and the task it created
Added == last.op = "add"
AddedText == last.text
AddedExt == last.ext
AddedDue == IF last.match.found THEN last.match.date ELSE NoDue
AddedTask == tasks[1]

\* the title left when the tags, the priority markers and the first date
\* match are stripped from the input
StrippedTitle ==
    IF last.match.found THEN ExciseDate(AddedExt.cleaned, last.match) ELSE AddedExt.cleaned

\* C6 as stated: with no explicit marker, the priority is that of the first
\* rule that applies: urgency keyword -> high; due within 24 hours -> high;
\* due within 72 hours -> medium; planning keyword -> low; otherwise medium;
\* and nothing else in the text matters.
C6_StatedPriority ==
    LET t == ToLower(AddedExt.cleaned) IN
    IF HasWord(t, {W_urgent, W_asap, W_critical, W_today}) THEN "high"
    ELSE IF AddedDue # NoDue /\ AddedDue - last.at <= 24 THEN "high"
    ELSE IF AddedDue # NoDue /\ AddedDue - last.at <= 72 THEN "medium"
    ELSE IF HasWord(t, {W_review, W_plan, W_someday}) THEN "low"
    ELSE "medium"
C6_AsStated ==
    (Added /\ AddedExt.priority = NoPriority) => AddedTask.priority = C6_StatedPriority

\* C6 as amended: with no explicit marker, the priority is that of the first
\* rule that applies: the cleaned text holds "!important" or "!urgent", or an
\* urgency keyword as a whole word -> high; a due other than the epoch instant
\* 0 lies at most 24 hours after now -> high; at most 72 hours -> medium; a
\* planning keyword as a whole word -> low; otherwise medium.
C6_AmendedPriority ==
    LET t == ToLower(AddedExt.cleaned) IN
    IF \/ Includes(t, <<"!">> \o W_important)
       \/ Includes(t, <<"!">> \o W_urgent)
       \/ HasWord(t, {W_urgent, W_asap, W_critical, W_today}) THEN "high"
    ELSE IF AddedDue # NoDue /\ AddedDue # 0 /\ AddedDue - last.at <= 24 THEN "high"
    ELSE IF AddedDue # NoDue /\ AddedDue # 0 /\ AddedDue - last.at <= 72 THEN "medium"
    ELSE IF HasWord(t, {W_review, W_plan, W_someday}) THEN "low"
    ELSE "medium"
C6_InferredPriority ==
    (Added /\ AddedExt.priority = NoPriority) => AddedTask.priority = C6_AmendedPriority
\* a quick-add without a marker whose due, 72 hours away, makes it medium
\* although a planning keyword is in the text
C6_Witness ==
    /\ Added
    /\ AddedExt.priority = NoPriority
    /\ HasWord(ToLower(AddedExt.cleaned), {W_plan})
    /\ AddedDue = last.at + 72
    /\ AddedTask.priority = "medium"

\* C7: whenever extractTokens captures an explicit priority marker, the
\* created task has that marker's priority, whatever keywords the text holds
\* and whatever the due is.
C7_ExplicitWins ==
    (Added /\ AddedExt.priority # NoPriority) => AddedTask.priority = AddedExt.priority
\* a "!low" input that the keyword and due rules would have made high
C7_Witness ==
    /\ Added
    /\ AddedExt.priority = "low"
    /\ inferPriority(AddedExt.cleaned, AddedDue, last.at) = "high"
    /\ AddedTask.priority = "low"

\* C8 as stated: extractTokens run on its own cleaned text finds no tag and
\* no priority marker.
C8_Idempotent ==
    Added => /\ extractTokens(AddedExt.cleaned).tags = <<>>
             /\ extractTokens(AddedExt.cleaned).priority = NoPriority

\* the occurrences of the two patterns in a text, stated position by position
MarkerWords == {W_high, W_med, W_medium, W_low}
MarkerStartsAt(s, i) ==
    s[i] = "!" /\ \E w \in MarkerWords : OccursAt(ToLower(Drop(s, i + 1)), 1, w)
InMarker(s, p) ==
    \E i \in 1..p :
        /\ s[i] = "!"
        /\ \E w \in MarkerWords : p <= i + Len(w) /\ OccursAt(ToLower(Drop(s, i + 1)), 1, w)
InTag(s, p) ==
    \E i \in 1..p :
        /\ s[i] = "#"
        /\ i < Len(s)
        /\ \A k \in (i + 1)..(IF p = i THEN i + 1 ELSE p) : IsTagChar(s[k])
\* the characters of s that lie in no tag and no marker
RECURSIVE Uncovered(_, _)
Uncovered(s, p) ==
    IF p > Len(s) THEN <<>>
    ELSE (IF InMarker(s, p) \/ InTag(s, p) THEN <<>> ELSE <<s[p]>>) \o Uncovered(s, p + 1)
\* the level of the marker that starts at position i
LevelAt(s, i) ==
    IF OccursAt(ToLower(Drop(s, i + 1)), 1, W_high) THEN "high"
    ELSE IF OccursAt(ToLower(Drop(s, i + 1)), 1, W_low) THEN "low"
    ELSE "medium"

\* C9: the explicit priority is the level of the leftmost marker of the text
\* (none when the text has no marker), and the cleaned text is what is left of
\* the text, whitespace normalised, when every marker occurrence (and every
\* tag) is taken out.
C9_FirstMarkerAllStripped ==
    Added =>
        /\ \A i \in 1..Len(AddedText) :
              (MarkerStartsAt(AddedText, i) /\ \A j \in 1..(i - 1) : ~MarkerStartsAt(AddedText, j))
                 => AddedExt.priority = LevelAt(AddedText, i)
        /\ (\A i \in 1..Len(AddedText) : ~MarkerStartsAt(AddedText, i))
              => AddedExt.priority = NoPriority
        /\ AddedExt.cleaned = Trim(CollapseSpaces(Uncovered(AddedText, 1)))
\* an input with a low marker first and a high marker after it
C9_Witness ==
    /\ Added
    /\ \E i, j \in 1..Len(AddedText) :
          /\ i < j
          /\ MarkerStartsAt(AddedText, i) /\ LevelAt(AddedText, i) = "low"
          /\ MarkerStartsAt(AddedText, j) /\ LevelAt(AddedText, j) = "high"
          /\ \A k \in 1..(i - 1) : ~MarkerStartsAt(AddedText, k)
    /\ AddedExt.priority = "low"
    /\ \A i \in 1..Len(AddedExt.cleaned) : ~MarkerStartsAt(AddedExt.cleaned, i)

\* C10 as stated: the created task's title is not empty, and when stripping
\* leaves an empty title the title is the raw trimmed input.
C10_AsStated ==
    Added => /\ AddedTask.title # <<>>
             /\ StrippedTitle = <<>> => AddedTask.title = AddedText
\* C10 as amended: the created task's title is not empty, and when stripping
\* leaves an empty title the title is the cleaned text (the input without its
\* tags and priority markers, the date phrase kept) if that is not empty, and
\* the raw trimmed input only if the cleaned text is empty too.
C10_TitleFallback ==
    Added => /\ AddedTask.title # <<>>
             /\ StrippedTitle = <<>> =>
                   AddedTask.title = (IF AddedExt.cleaned # <<>> THEN AddedExt.cleaned
                                      ELSE AddedText)
\* an input of a date phrase and a tag: stripping leaves nothing, the title
\* is the date phrase
C10_Witness ==
    /\ Added
    /\ StrippedTitle = <<>>
    /\ AddedExt.cleaned # <<>>
    /\ AddedExt.cleaned # AddedText
    /\ AddedTask.title = AddedExt.cleaned

\* C20 as stated: with no explicit priority marker, an urgency keyword
\* standing as a word anywhere in the raw input, inside a #tag included,
\* gives the created task the priority high.
C20_RawKeywordHigh ==
    (/\ Added
     /\ AddedExt.priority = NoPriority
     /\ HasWord(ToLower(last.text), {W_urgent, W_asap, W_critical, W_today})) =>
        AddedTask.priority = "high"

-----------------------------------------------------------------------------
(* The application runs.                                                   *)

Init ==
    /\ tasks = <<>>
    /\ input = <<>>
    /\ notes = <<>>
    /\ filterText = <<>>
    /\ filterTag = Absent
    /\ filterProject = Absent
    /\ showDone = FALSE
    /\ now = DayTicks
    /\ last = NoCall
    /\ AiIdle
    /\ editing = NoEditing

Next ==
    \/ TypeInput
    \/ AddTaskFromInput
    \/ ToggleDone
    \/ RemoveTask
    \/ BumpPriority
    \/ MoveToBucket
    \/ ResetTasks
    \/ Tick

Spec == Init /\ [][Next]_vars

\* the store: the handlers that create, replace and delete tasks, from an
\* empty collection
NextStore ==
    \/ TypeInput
    \/ AddTaskFromInput
    \/ ImportJSON
    \/ SaveEdit
    \/ ToggleDone
    \/ BumpPriority
    \/ RemoveTask
    \/ ResetTasks

SpecStore == Init /\ [][NextStore]_vars

-----------------------------------------------------------------------------
(* The views: a stored collection, looked at through the filter menu, the  *)
(* search box and the passing of time.                                     *)

InitView(samples) ==
    /\ tasks \in SeqsUpTo(samples, MaxViewTasks)
    /\ input = <<>>
    /\ notes = <<>>
    /\ filterText = <<>>
    /\ filterTag = Absent
    /\ filterProject = Absent
    /\ showDone = FALSE
    /\ now = DayTicks
    /\ last = NoCall
    /\ AiIdle
    /\ editing = NoEditing

InitBoard == InitView(BoardSamples)
NextBoard == ToggleShowDone \/ Tick
SpecBoard == InitBoard /\ [][NextBoard]_vars

InitList == InitView(ListSamples)
NextList == ToggleShowDone
SpecList == InitList /\ [][NextList]_vars

InitFilter == InitView(FilterSamples)
NextFilter == SetFilterText \/ SetFilterTag \/ SetFilterProject \/ ToggleShowDone
SpecFilter == InitFilter /\ [][NextFilter]_vars

-----------------------------------------------------------------------------
(* The moves: a stored collection, its tasks moved between the columns as  *)
(* time passes.                                                            *)

InitMove ==
    /\ tasks \in SeqsUpTo(MoveSamples, MaxTasks)
    /\ input = <<>>
    /\ notes = <<>>
    /\ filterText = <<>>
    /\ filterTag = Absent
    /\ filterProject = Absent
    /\ showDone = FALSE
    /\ now = DayTicks
    /\ last = NoCall
    /\ AiIdle
    /\ editing = NoEditing

NextMove == MoveToBucket \/ Tick
SpecMove == InitMove /\ [][NextMove]_vars

\* the moves with the "show completed" switch in play, the board looked at
\* at any one instant of the clock
InitDrag ==
    /\ tasks \in SeqsUpTo(MoveSamples, MaxTasks)
    /\ input = <<>>
    /\ notes = <<>>
    /\ filterText = <<>>
    /\ filterTag = Absent
    /\ filterProject = Absent
    /\ showDone = FALSE
    /\ now \in ClockInstants
    /\ last = NoCall
    /\ AiIdle
    /\ editing = NoEditing
NextDrag == MoveToBucket \/ ToggleShowDone
SpecDrag == InitDrag /\ [][NextDrag]_vars

-----------------------------------------------------------------------------
(* The bumps: a stored collection, its tasks bumped up and down.           *)

InitBump ==
    /\ tasks \in SeqsUpTo(BumpSamples, MaxTasks)
    /\ input = <<>>
    /\ notes = <<>>
    /\ filterText = <<>>
    /\ filterTag = Absent
    /\ filterProject = Absent
    /\ showDone = FALSE
    /\ now = DayTicks
    /\ last = NoCall
    /\ AiIdle
    /\ editing = NoEditing

NextBump == BumpPriority

SpecBump == InitBump /\ [][NextBump]_vars

\* one step up and one step down the scale, the ends staying where they are
C12_Up == [low |-> "medium", medium |-> "high", high |-> "high"]
C12_Down == [low |-> "low", medium |-> "low", high |-> "medium"]

\* C12: bumpPriority(id, dir) moves every task of that id one step along
\* [low, medium, high], high staying high under +1 and low staying low
\* under -1; the priority it leaves is always one of the three; the other
\* tasks stay as they are.
C12_BumpClamped ==
    [][ last'.op = "bump" =>
           /\ Len(tasks') = Len(tasks)
           /\ \A i \in 1..Len(tasks) :
                 IF tasks[i].id # last'.id THEN tasks'[i] = tasks[i]
                 ELSE /\ tasks'[i].priority \in {"low", "medium", "high"}
                      /\ tasks[i].priority \in {"low", "medium", "high"} =>
                            tasks'[i].priority =
                               (IF last'.arg = "+1" THEN C12_Up ELSE C12_Down)[tasks[i].priority]
      ]_vars
\* a task that was high has just been bumped up and is high
C12_Witness ==
    /\ last.op = "bump" /\ last.arg = "+1" /\ last.was = "high"
    /\ \E i \in 1..Len(tasks) : tasks[i].id = last.id /\ tasks[i].priority = "high"

-----------------------------------------------------------------------------
(* Export and import: a stored collection, written to a file and read from *)
(* one.                                                                    *)

InitFile ==
    /\ tasks \in SeqsUpTo(FileSamples, MaxTasks)
    /\ input = <<>>
    /\ notes = <<>>
    /\ filterText = <<>>
    /\ filterTag = Absent
    /\ filterProject = Absent
    /\ showDone = FALSE
    /\ now = DayTicks
    /\ last = NoCall
    /\ AiIdle
    /\ editing = NoEditing

NextFile == ExportJSON \/ ImportJSON

SpecFile == InitFile /\ [][NextFile]_vars

\* the documents C16 speaks of: text that is not JSON, a top-level value
\* that is not an array, an array with an element that cannot be normalised
C16_Rejected(doc) ==
    \/ doc.kind = "invalid"
    \/ doc.kind = "object"
    \/ doc.kind = "array" /\ \E i \in 1..Len(doc.elems) : doc.elems[i].null

\* C16: importJSON on such a document shows an error and leaves the
\* collection exactly as it was.
C16_ImportRejects ==
    [][ (last'.op = "import" /\ C16_Rejected(last'.doc)) =>
           /\ tasks' = tasks
           /\ last'.arg # ""
      ]_vars
\* a document whose first element can be imported and whose second is null
\* has been refused, and the collection still holds its two tasks
C16_Witness ==
    /\ last.op = "import"
    /\ last.doc.kind = "array"
    /\ Len(last.doc.elems) = 2
    /\ ~last.doc.elems[1].null /\ last.doc.elems[2].null
    /\ last.arg = "TypeError"
    /\ Len(tasks) = 2
    /\ tasks[1].title = <<"a">>

\* the records that conform to the persisted schema: id, title and notes
\* strings (the notes possibly empty), createdAt and due integers (the due
\* possibly absent), the priority one of the three levels
C17_Conforms(t) ==
    /\ t.id # ""
    /\ t.title # Absent /\ t.title # <<>>
    /\ t.notes # Absent
    /\ t.createdAt >= 0
    /\ t.due = NoDue \/ t.due >= 0
    /\ t.project = Absent \/ t.project # <<>>
    /\ t.priority \in {"low", "medium", "high"}

\* C17 as stated: importing the file an export of a conforming collection
\* wrote yields a collection equal to the original, in content and order.
C17_RoundTrip ==
    [][ (/\ last.op = "export"
         /\ last'.op = "import"
         /\ last'.doc = last.doc
         /\ \A i \in 1..Len(tasks) : C17_Conforms(tasks[i])) =>
           tasks' = tasks
      ]_vars

-----------------------------------------------------------------------------
(* The assistant: a stored collection, the API key box, the two buttons    *)
(* that call callLLM and the calls in flight.                              *)

InitLLM ==
    /\ tasks \in SeqsUpTo(LLMSamples, MaxTasks)
    /\ input = <<>>
    /\ notes = <<>>
    /\ filterText = <<>>
    /\ filterTag = Absent
    /\ filterProject = Absent
    /\ showDone = FALSE
    /\ now = DayTicks
    /\ last = NoCall
    /\ AiIdle
    /\ editing = NoEditing

NextLLM == SetAiKey \/ SummarizeDay \/ BreakDownTask \/ SettleCall

SpecLLM == InitLLM /\ [][NextLLM]_vars

\* the failures of the remote call C18 names: network, auth, a response that
\* does not parse
C18_Failures == {"network", "auth", "notjson"}

\* C18 as stated: every call of callLLM resolves to a text; with no
\* credential it is the local text for the prompt and fetch is not called;
\* with a credential, every failure of the remote call gives the one string
\* "AI call failed. Using local heuristic instead."
C18_Boundary ==
    last.op = "llm" =>
       /\ last.arg \in {SummaryText, SubtasksText, MockText, NoResponseText,
                        FailedText, AnswerText}
       /\ last.doc.key = "" =>
             /\ ~last.doc.remote
             /\ last.arg = (IF TestSummarize(last.doc.prompt) THEN SummaryText
                            ELSE SubtasksText)
       /\ (last.doc.key # "" /\ last.was \in C18_Failures) =>
             last.arg = FailedText

\* C24 as stated: whatever the interleaving of summarizeDay, breakDownTask
\* and the completions, aiWorking is true in every state in which a call is
\* outstanding, and it becomes false once none is outstanding any more.
C24_BusyFlag ==
    /\ [](Len(pending) > 0 => aiWorking)
    /\ ((Len(pending) = 0) ~> ~aiWorking)

\* C25 as stated: once every request has completed, the assistant panel shows
\* the result of the most recently issued request.
C25_NewestShown ==
    (Len(pending) = 0 /\ newest # NoRequest) => aiOutput = newest

-----------------------------------------------------------------------------
(* The per-task mutations: a stored collection, the row buttons, the edit  *)
(* dialog and an import whose file is read while the dialog is open.  The  *)
(* moves between the columns run under SpecMove.                           *)

InitEdit ==
    /\ tasks \in SeqsUpTo(EditSamples, MaxTasks)
    /\ input = <<>>
    /\ notes = <<>>
    /\ filterText = <<>>
    /\ filterTag = Absent
    /\ filterProject = Absent
    /\ showDone = FALSE
    /\ now = DayTicks
    /\ last = NoCall
    /\ AiIdle
    /\ editing = NoEditing

NextEdit ==
    \/ ToggleDone
    \/ BumpPriority
    \/ OpenEdit
    \/ UpdateTask
    \/ CloseEdit
    \/ ImportJSON

SpecEdit == InitEdit /\ [][NextEdit]_vars

\* C22 as stated: toggleDone, bumpPriority, moveToBucket and updateTask keep
\* the length and the order of the collection, leave every task with another
\* id as it is, change no task's id or createdAt, and change nothing when no
\* task has the addressed id.
C22_Frame ==
    [][ last'.op \in {"toggle", "bump", "move", "save"} =>
           /\ Len(tasks') = Len(tasks)
           /\ \A k \in 1..Len(tasks) :
                 /\ tasks'[k].id = tasks[k].id
                 /\ tasks'[k].createdAt = tasks[k].createdAt
                 /\ tasks[k].id # last'.id => tasks'[k] = tasks[k]
           /\ (\A k \in 1..Len(tasks) : tasks[k].id # last'.id) => tasks' = tasks
      ]_vars

-----------------------------------------------------------------------------
(* Claims about the stored collection, checked under SpecStore.            *)

\* C11: in every reachable state every stored task's priority is one of low,
\* medium, high.
C11_PriorityValid ==
    \A i \in 1..Len(tasks) : tasks[i].priority \in {"low", "medium", "high"}

\* C13: in every reachable state the tags of every task are lowercase and
\* pairwise distinct.
C13_TagsNormal ==
    \A i \in 1..Len(tasks) :
        /\ \A k \in 1..Len(tasks[i].tags) :
              \A c \in 1..Len(tasks[i].tags[k]) : tasks[i].tags[k][c] \notin UpperSet
        /\ \A k, l \in 1..Len(tasks[i].tags) : k # l => tasks[i].tags[k] # tasks[i].tags[l]

\* C14: in every reachable state a task's project, when present, is what
\* follows "proj:" in one of the task's own tags.
C14_ProjectDerived ==
    \A i \in 1..Len(tasks) :
        tasks[i].project # Absent =>
            \E k \in 1..Len(tasks[i].tags) :
                tasks[i].tags[k] = <<"p","r","o","j",":">> \o tasks[i].project

\* C15: in every reachable state no two tasks of the collection share an id.
C15_UniqueIds ==
    \A i, j \in 1..Len(tasks) : i # j => tasks[i].id # tasks[j].id

-----------------------------------------------------------------------------
(* Claims about the board, checked under SpecBoard.                        *)

\* the column C1 gives a task at the instant at
C1_Column(t, at) ==
    LET todayStart == (at \div 24) * 24
        todayEnd == todayStart + 23
        weekEnd == todayEnd + 7 * 24
    IN IF t.done THEN "done"
       ELSE IF t.due # NoDue /\ todayStart <= t.due /\ t.due <= todayEnd THEN "today"
       ELSE IF t.due # NoDue /\ todayEnd < t.due /\ t.due <= weekEnd THEN "week"
       ELSE "later"

\* C1: at every instant every filtered task is in exactly one column of the
\* board: done if it is done; else today if its due lies in
\* [todayStart, todayEnd]; else week if its due lies in (todayEnd, weekEnd];
\* else later.  The columns hold nothing else.
C1_Bucketing ==
    LET board == Board
        shown == Filtered
    IN /\ \A i \in 1..Len(shown) :
             \E k \in 1..Len(board[C1_Column(shown[i], now)]) :
                 board[C1_Column(shown[i], now)][k] = shown[i]
       /\ \A key \in BucketKeys :
             /\ \A k \in 1..Len(board[key]) : C1_Column(board[key][k], now) = key
             /\ Len(board[key]) =
                   Cardinality({i \in 1..Len(shown) : C1_Column(shown[i], now) = key})
\* the clock has moved on; an open task due at the last tick of today is in
\* today, one due a tick later is in week
C1_Witness ==
    /\ last.op = "tick"
    /\ now > DayTicks + 23
    /\ Len(tasks) = 2
    /\ ~tasks[1].done /\ tasks[1].due = (now \div 24) * 24 + 23
    /\ ~tasks[2].done /\ tasks[2].due = (now \div 24) * 24 + 24
    /\ Board.today = <<tasks[1]>>
    /\ Board.week = <<tasks[2]>>
    /\ Board.later = <<>>

\* C19 as stated: a not-done task is in the later column only if it has no
\* due or its due is beyond weekEnd; at no instant is a not-done task with a
\* due at or before weekEnd shown in later.
C19_AsStated ==
    LET later == Board.later
        weekEnd == (now \div 24) * 24 + 23 + 7 * 24
    IN \A k \in 1..Len(later) :
          ~later[k].done => (later[k].due = NoDue \/ later[k].due > weekEnd)

\* C19, amended: a not-done task is in the later column only if it has no
\* due, its due is before todayStart, or its due is beyond weekEnd; at no
\* instant is a not-done task with a due in [todayStart, weekEnd] shown in
\* later.
C19_LaterOnly ==
    LET later == Board.later
        shown == Filtered
        todayStart == (now \div 24) * 24
        weekEnd == (now \div 24) * 24 + 23 + 7 * 24
    IN /\ \A k \in 1..Len(later) :
             ~later[k].done =>
                \/ later[k].due = NoDue
                \/ later[k].due < todayStart
                \/ later[k].due > weekEnd
       /\ \A i \in 1..Len(shown) :
             (/\ ~shown[i].done
              /\ shown[i].due # NoDue
              /\ todayStart <= shown[i].due
              /\ shown[i].due <= weekEnd) =>
                \A k \in 1..Len(later) : later[k] # shown[i]
\* the clock has moved on to the next day: an open task due at the last tick
\* of yesterday is in later, one due at the last tick of the seventh day from
\* now is not
C19_Witness ==
    /\ last.op = "tick"
    /\ Len(tasks) = 2
    /\ ~tasks[1].done /\ tasks[1].due = (now \div 24) * 24 - 1
    /\ ~tasks[2].done /\ tasks[2].due = (now \div 24) * 24 + 23 + 7 * 24
    /\ Board.later = <<tasks[1]>>
    /\ Board.week = <<tasks[2]>>

-----------------------------------------------------------------------------
(* Claims about moveToBucket, checked under SpecMove.                      *)

Moved(bucket) == last'.op = "move" /\ last'.arg = bucket

\* C2: moveToBucket(id, target) rewrites every task with that id: for done,
\* done becomes true and due stays; for later, due is cleared and done
\* becomes false; for week, due becomes 09:00 of the day three days after
\* today and done becomes false.
C2_MoveRewrites ==
    [][ (Moved("done") \/ Moved("later") \/ Moved("week")) =>
           /\ Len(tasks') = Len(tasks)
           /\ \A i \in 1..Len(tasks) :
                 tasks[i].id = last'.id =>
                    /\ Moved("done") =>
                          tasks'[i].done /\ tasks'[i].due = tasks[i].due
                    /\ Moved("later") =>
                          ~tasks'[i].done /\ tasks'[i].due = NoDue
                    /\ Moved("week") =>
                          ~tasks'[i].done /\ tasks'[i].due = ((now \div 24) + 3) * 24 + 9
      ]_vars
\* a completed task with a due has just been moved to week
C2_Witness ==
    /\ last.op = "move" /\ last.arg = "week"
    /\ \E i \in 1..Len(tasks) :
          /\ tasks[i].id = last.id
          /\ tasks[i].id = "t2"
          /\ ~tasks[i].done
          /\ tasks[i].due = ((now \div 24) + 3) * 24 + 9

\* C3: moveToBucket(id, "today") sets due to 17:00 of today and done to
\* false on every task with that id and changes no other field of it.
C3_MoveToday ==
    [][ Moved("today") =>
           /\ Len(tasks') = Len(tasks)
           /\ \A i \in 1..Len(tasks) :
                 tasks[i].id = last'.id =>
                    tasks'[i] = [tasks[i] EXCEPT !.due = (now \div 24) * 24 + 17,
                                                 !.done = FALSE]
      ]_vars
\* a task with notes and a tag has just been moved to today
C3_Witness ==
    /\ last.op = "move" /\ last.arg = "today"
    /\ \E i \in 1..Len(tasks) :
          /\ tasks[i].id = last.id
          /\ tasks[i].notes = <<"n">>
          /\ tasks[i].tags = <<<<"w">>>>
          /\ ~tasks[i].done
          /\ tasks[i].due = (now \div 24) * 24 + 17

-----------------------------------------------------------------------------
(* Claims about the moves as the board shows them, checked under SpecDrag. *)

\* the columns of a board that show a task with the id
C23_ColumnsOf(board, id) ==
    {key \in BucketKeys : \E k \in 1..Len(board[key]) : board[key][k].id = id}
\* moveToBucket has just run on a task the board showed
C23_MovedVisible ==
    /\ last'.op = "move"
    /\ \E before \in {Board} : C23_ColumnsOf(before, last'.id) # {}

\* C23 as stated: right after moveToBucket(id, B) on a task the board showed,
\* the board shows the task in column B and in no other column, for every B
\* and every setting of showDone.
C23_AsStated ==
    [][ C23_MovedVisible =>
           \A after \in {buckets(FilterTasks(tasks', showDone', filterTag',
                                            filterProject', filterText'), now')} :
           C23_ColumnsOf(after, last'.id) = {last'.arg}
      ]_vars

\* C23, amended: right after moveToBucket(id, B) on a task the board showed,
\* the board shows the task in column B and in no other column when B is
\* today, week or later, or when B is done and completed tasks are shown;
\* when B is done and completed tasks are hidden, the board no longer shows
\* the task.
C23_MoveShown ==
    [][ C23_MovedVisible =>
           \A after \in {buckets(FilterTasks(tasks', showDone', filterTag',
                                            filterProject', filterText'), now')} :
           C23_ColumnsOf(after, last'.id) =
              (IF last'.arg = "done" /\ ~showDone THEN {} ELSE {last'.arg})
      ]_vars
\* a task has just been moved to done while completed tasks are hidden: it
\* is stored as done and is in no column
C23_Witness ==
    /\ last.op = "move" /\ last.arg = "done"
    /\ ~showDone
    /\ \E i \in 1..Len(tasks) : tasks[i].id = last.id /\ tasks[i].done
    /\ LET board == Board IN C23_ColumnsOf(board, last.id) = {}

-----------------------------------------------------------------------------
(* Claims about the list, checked under SpecList.                          *)

\* C4's four keys: whether a may stand before b
C4_Rank(t) == IF t.priority = "high" THEN 0 ELSE IF t.priority = "medium" THEN 1 ELSE 2
C4_MayPrecede(a, b) ==
    IF a.done # b.done THEN ~a.done
    ELSE IF C4_Rank(a) # C4_Rank(b) THEN C4_Rank(a) < C4_Rank(b)
    ELSE IF a.due # b.due THEN (b.due = NoDue \/ (a.due # NoDue /\ a.due < b.due))
    ELSE a.createdAt <= b.createdAt

\* C4 as stated: the list is the filtered tasks ordered by not-done before
\* done, then priority rank high < medium < low, then due ascending with an
\* absent due as +infinity, then createdAt ascending.
C4_ListOrder ==
    \A i, j \in 1..Len(Visible) : i < j => C4_MayPrecede(Visible[i], Visible[j])

\* the keys C21 orders a column by: the priority rank, 0 in the done column,
\* and the due
C21_Rank(t, key) ==
    IF key = "done" THEN 0
    ELSE IF t.priority = "high" THEN 0 ELSE IF t.priority = "medium" THEN 1 ELSE 2
C21_MayPrecede(a, b, key) ==
    IF C21_Rank(a, key) # C21_Rank(b, key) THEN C21_Rank(a, key) < C21_Rank(b, key)
    ELSE a.due = b.due \/ b.due = NoDue \/ (a.due # NoDue /\ a.due < b.due)
\* the tasks of ts that have the keys of t, in their order
RECURSIVE C21_SameKeys(_, _, _)
C21_SameKeys(ts, t, key) ==
    IF ts = <<>> THEN <<>>
    ELSE (IF C21_Rank(ts[1], key) = C21_Rank(t, key) /\ ts[1].due = t.due
          THEN <<ts[1]>> ELSE <<>>) \o C21_SameKeys(Tail(ts), t, key)
\* the filtered tasks that belong to a column, in their order
RECURSIVE C21_Members(_, _, _)
C21_Members(ts, key, at) ==
    IF ts = <<>> THEN <<>>
    ELSE (IF C1_Column(ts[1], at) = key THEN <<ts[1]>> ELSE <<>>)
         \o C21_Members(Tail(ts), key, at)

\* C21 as stated: the today, week and later columns are ordered by priority
\* rank, then by due ascending with an absent due last; the done column by
\* due ascending with an absent due last; tasks with equal keys stand in the
\* order they have in the filtered list.
C21_ColumnOrder ==
    LET board == Board
        shown == Filtered
    IN \A key \in BucketKeys :
          LET col == board[key] IN
          /\ \A i, j \in 1..Len(col) : i < j => C21_MayPrecede(col[i], col[j], key)
          /\ \A i \in 1..Len(col) :
                C21_SameKeys(col, col[i], key) =
                   C21_SameKeys(C21_Members(shown, key, now), col[i], key)

-----------------------------------------------------------------------------
(* Claims about the filter, checked under SpecFilter.                      *)

\* the text the search looks in: title, notes and tags, a space between them
RECURSIVE C5_Tags(_, _)
C5_Tags(t, k) ==
    IF k > Len(t.tags) THEN <<>>
    ELSE (IF k > 1 THEN <<" ">> ELSE <<>>) \o t.tags[k] \o C5_Tags(t, k + 1)
C5_Text(t) ==
    t.title \o <<" ">> \o (IF t.notes = Absent THEN <<>> ELSE t.notes) \o <<" ">> \o C5_Tags(t, 1)
\* needle occurs in text, the case of the letters set aside
C5_Occurs(text, needle) ==
    \E i \in 1..(Len(text) + 1) :
        /\ i + Len(needle) - 1 <= Len(text)
        /\ \A k \in 1..Len(needle) : ToLowerChar(text[i + k - 1]) = ToLowerChar(needle[k])
C5_Passes(t) ==
    /\ showDone \/ ~t.done
    /\ filterTag = Absent \/ filterTag \in {t.tags[k] : k \in 1..Len(t.tags)}
    /\ filterProject = Absent \/ t.project = filterProject
    /\ C5_Occurs(C5_Text(t), filterText)

\* C5: the filtered list is the tasks, in their order, that pass all four
\* predicates; with completed tasks shown, no tag, no project and an empty
\* search it is every task.
C5_Filtering ==
    /\ Filtered = SelectSeq(tasks, C5_Passes)
    /\ (showDone /\ filterTag = Absent /\ filterProject = Absent /\ filterText = <<>>)
          => Filtered = tasks
\* all four filters are set; the first task passes them, the second does not
C5_Witness ==
    /\ filterTag = <<"w">>
    /\ filterProject = <<"x">>
    /\ filterText = <<"b"," ","n">>
    /\ ~showDone
    /\ Len(tasks) = 2
    /\ tasks[2].project = <<"x">> /\ tasks[2].done
    /\ Filtered = <<tasks[1]>>

====
